---- MODULE Spec2Model ----
(***************************************************************************)
(* FPI Food Hub: the order ledger (orders, order_items,                    *)
(* order_status_history), the stored routine create_order_with_items that  *)
(* writes it, and the checkout page that calls the routine.                *)
(*                                                                         *)
(* Amounts (decimal(10,2) in the schema) are counted in whole units of the *)
(* smallest amount the model uses; ids produced by gen_random_uuid() are   *)
(* drawn from a counter, so that every id is fresh.                        *)
(*                                                                         *)
(* Six specifications:                                                     *)
(*   Spec    calls of the routine run one after the other (each call is    *)
(*           one database transaction, so one step);                       *)
(*   SpecTx  two database sessions run the routine concurrently, one SQL   *)
(*           statement per step, under READ COMMITTED with the unique      *)
(*           index on orders.tracking_id;                                  *)
(*   SpecAdmin  the ledger after creation: an admin dashboard and other    *)
(*           clients changing order statuses and the menu, the stored      *)
(*           routines update_order_status and confirm_payment, test-db.ts; *)
(*   SpecQueue  the dashboard's fetchOrders with its retries and its       *)
(*           channel 'admin-orders';                                       *)
(*   SpecCart  the cart of cart.ts and the checkout page of one browser;   *)
(*   SpecTracking  the order lookup of the success page and the            *)
(*           notifications of one browser.                                 *)
(***************************************************************************)
EXTENDS Integers, Sequences, FiniteSets, TLC

\* ------------------------------------------------------------------ bounds
MaxTotal == 2
MaxQuantity == 2
MaxUnitPrice == 1
MaxItems == 2
MaxCalls == 2

\* ------------------------------------------------------------- value sets
FoodIds == {"F1", "F2", "F3"}
TrackingIds == {"FPI-AAAAAA", "FPI-BBBBBB"}
SessionIds == {"s1"}
Notes == {""}

order_status_enum ==
  {"pending", "payment_received", "confirmed", "preparing", "dispatched",
   "delivered", "cancelled"}

Totals == 0..MaxTotal
Quantities == 0..MaxQuantity
UnitPrices == 0..MaxUnitPrice

\* One element of p_order_items.
ItemTuples == [food_item_id : FoodIds, quantity : Quantities, unit_price : UnitPrices]

RECURSIVE SeqsUpTo(_, _)
SeqsUpTo(S, n) ==
  IF n = 0 THEN {<<>>}
  ELSE LET shorter == SeqsUpTo(S, n - 1)
       IN  shorter \cup {Append(s, x) : s \in {t \in shorter : Len(t) = n - 1}, x \in S}

ItemLists == SeqsUpTo(ItemTuples, MaxItems)

Range(s) == {s[i] : i \in DOMAIN s}

\* The number of positions of s that hold r.
Count(s, r) == Cardinality({i \in DOMAIN s : s[i] = r})

\* s and t hold the same rows, each as often (the order of rows is not compared).
SameRows(s, t) ==
  /\ Len(s) = Len(t)
  /\ \A r \in Range(s) \cup Range(t) : Count(s, r) = Count(t, r)

RECURSIVE SumSeq(_)
SumSeq(s) == IF s = <<>> THEN 0 ELSE Head(s) + SumSeq(Tail(s))

\* ------------------------------------------------------------------ state
VARIABLES
  food_items,            \* set of rows [id, price, available] (the catalog)
  orders,                \* sequence of committed rows, in insertion order
  order_items,           \* sequence of committed rows
  order_status_history,  \* sequence of committed rows, oldest first
  next_order_id,         \* the next value gen_random_uuid() gives orders.id
  calls,                 \* number of calls made so far (Spec)
  last,                  \* the last call: its arguments and its outcome
  tx,                    \* the database sessions running the routine (SpecTx)
  now,                   \* the database clock: the value of now() in the next transaction
  orders_changes,        \* the changes of table orders published so far (SpecAdmin)
  admin,                 \* the admin dashboards: their view and the call they are in (SpecAdmin)
  payment_confirmation_history,  \* sequence of committed rows, oldest first
  client                 \* the browser of one customer: cart, pages, notifications

vars == <<food_items, orders, order_items, order_status_history,
          next_order_id, calls, last, tx, now, orders_changes, admin,
          payment_confirmation_history, client>>

ledger == <<orders, order_items, order_status_history>>

NoOrder == [id |-> 0]

\* No call yet. In a call record, rpc tells whether the routine was invoked.
NoCall ==
  [via |-> "none", rpc |-> FALSE, p_session_id |-> "", p_total_amount |-> 0,
   p_tracking_id |-> "", p_customer_note |-> "", p_order_items |-> <<>>,
   error |-> "none", v_order |-> NoOrder]

\* ------------------------------------------------------------ the schema
\* food_items.id values present in the catalog (the target of the foreign key).
FoodItemIds(foods) == {f.id : f \in foods}

\* orders: CHECK (total_amount > 0)
orders_total_amount_check(total_amount) == total_amount > 0

\* The constraint written as CHECK (quantity >= 0).
order_items_quantity_check_nonnegative(quantity) == quantity >= 0

\* order_items: CHECK (quantity > 0)
order_items_quantity_check(quantity) == quantity > 0

\* order_items: CHECK (unit_price > 0)
order_items_unit_price_check(unit_price) == unit_price > 0

\* The column declared without REFERENCES food_items(id).
order_items_food_item_id_fkey_absent(foods, food_item_id) == TRUE

\* order_items: food_item_id REFERENCES food_items(id). The key only has to
\* exist: the column "available" plays no part in the constraint.
order_items_food_item_id_fkey(foods, food_item_id) == food_item_id \in FoodItemIds(foods)

\* The column declared without UNIQUE.
orders_tracking_id_key_absent(ords, tracking_id) == TRUE

\* orders: tracking_id text UNIQUE NOT NULL, against the rows in ords.
orders_tracking_id_key(ords, tracking_id) ==
  \A i \in DOMAIN ords : ords[i].tracking_id # tracking_id

\* The error of INSERT INTO order_items for one row; CHECK constraints are
\* tested when the row is formed, the foreign key by its trigger afterwards.
OrderItemsInsertError(foods, row) ==
  IF ~order_items_quantity_check(row.quantity) THEN "check_violation"
  ELSE IF ~order_items_unit_price_check(row.unit_price) THEN "check_violation"
  ELSE IF ~order_items_food_item_id_fkey(foods, row.food_item_id)
       THEN "foreign_key_violation"
  ELSE "none"

\* The error of INSERT INTO orders for one row, against the rows in ords.
OrdersInsertError(ords, row) ==
  IF ~orders_total_amount_check(row.total_amount) THEN "check_violation"
  ELSE IF ~orders_tracking_id_key(ords, row.tracking_id) THEN "unique_violation"
  ELSE "none"

\* --------------------------------------------- create_order_with_items
\* The test written as p_total_amount < 0.
InvalidTotalAmount_strict(p_total_amount) == p_total_amount < 0

\* IF p_total_amount <= 0 THEN RAISE EXCEPTION 'Invalid order total amount'
InvalidTotalAmount(p_total_amount) == p_total_amount <= 0

\* The routine without its EXISTS test.
DuplicateTrackingId_untested(ords, p_tracking_id) == FALSE

\* IF EXISTS (SELECT 1 FROM orders WHERE tracking_id = p_tracking_id)
DuplicateTrackingId(ords, p_tracking_id) ==
  \E i \in DOMAIN ords : ords[i].tracking_id = p_tracking_id

\* INSERT INTO orders (...) VALUES (p_session_id, p_total_amount,
\* p_tracking_id, p_customer_note, 'pending') RETURNING id INTO v_order_id;
\* payment_status is left to its DEFAULT 'pending', updated_at to its DEFAULT
\* now(), ts.
NewOrderRow(v_order_id, p, ts) ==
  [id |-> v_order_id, session_id |-> p.p_session_id,
   total_amount |-> p.p_total_amount, status |-> "pending",
   tracking_id |-> p.p_tracking_id, customer_note |-> p.p_customer_note,
   payment_status |-> "pending", updated_at |-> ts]

\* The row with the quantity also written to unit_price.
NewOrderItemRow_quantity_as_price(v_order_id, v_item) ==
  [order_id |-> v_order_id, food_item_id |-> v_item.food_item_id,
   quantity |-> v_item.quantity, unit_price |-> v_item.quantity]

\* The row the loop inserts for one element of p_order_items.
NewOrderItemRow(v_order_id, v_item) ==
  [order_id |-> v_order_id, food_item_id |-> v_item.food_item_id,
   quantity |-> v_item.quantity, unit_price |-> v_item.unit_price]

\* INSERT INTO order_status_history (order_id, status) VALUES (v_order_id, 'pending')
InitialHistoryRow(v_order_id) == [order_id |-> v_order_id, status |-> "pending"]

\* FOR v_item IN SELECT * FROM jsonb_array_elements(p_order_items) LOOP
\* INSERT INTO order_items ...: the rows are inserted one by one from
\* position i on; the first failing insert ends the loop with its error and
\* the rows written so far.
RECURSIVE InsertOrderItems(_, _, _, _, _)
InsertOrderItems(rows, foods, v_order_id, p_order_items, i) ==
  IF i > Len(p_order_items) THEN [error |-> "none", order_items |-> rows]
  ELSE LET row == NewOrderItemRow(v_order_id, p_order_items[i])
           e == OrderItemsInsertError(foods, row)
       IN  IF e # "none" THEN [error |-> e, order_items |-> rows]
           ELSE InsertOrderItems(Append(rows, row), foods, v_order_id, p_order_items, i + 1)

ItemsOfOrder(rows, order_id) == SelectSeq(rows, LAMBDA r : r.order_id = order_id)

HistoryOfOrder(rows, order_id) == SelectSeq(rows, LAMBDA r : r.order_id = order_id)

\* SELECT jsonb_build_object('id', o.id, ..., 'order_items', (SELECT
\* jsonb_agg(...) FROM order_items oi WHERE oi.order_id = o.id)) INTO v_order
BuildOrderJson(o, rows) ==
  [id |-> o.id, session_id |-> o.session_id, total_amount |-> o.total_amount,
   status |-> o.status, tracking_id |-> o.tracking_id,
   customer_note |-> o.customer_note,
   order_items |-> [i \in DOMAIN ItemsOfOrder(rows, o.id) |->
      [food_item_id |-> ItemsOfOrder(rows, o.id)[i].food_item_id,
       quantity |-> ItemsOfOrder(rows, o.id)[i].quantity,
       unit_price |-> ItemsOfOrder(rows, o.id)[i].unit_price]]]

\* EXCEPTION WHEN OTHERS THEN RAISE: the error leaves the routine, and the
\* statement that called it is undone: the tables are those before the call.
RaiseException(before, working, e) ==
  [error |-> e, v_order |-> NoOrder, orders |-> before.orders,
   order_items |-> before.order_items,
   order_status_history |-> before.order_status_history]

\* One call of the routine run as one transaction against the tables db,
\* with the catalog foods, v_order_id the id the orders row is given and ts
\* the transaction's now().
create_order_with_items(db, foods, v_order_id, p, ts) ==
  IF InvalidTotalAmount(p.p_total_amount) THEN RaiseException(db, db, "invalid_total")
  ELSE IF DuplicateTrackingId(db.orders, p.p_tracking_id)
       THEN RaiseException(db, db, "duplicate_tracking")
  ELSE
    LET o == NewOrderRow(v_order_id, p, ts)
        e1 == OrdersInsertError(db.orders, o)
        db1 == [db EXCEPT !.orders = Append(@, o)]
        r2 == InsertOrderItems(db1.order_items, foods, v_order_id, p.p_order_items, 1)
        db2 == [db1 EXCEPT !.order_items = r2.order_items]
        db3 == [db2 EXCEPT !.order_status_history =
                  Append(@, InitialHistoryRow(v_order_id))]
    IN  IF e1 # "none" THEN RaiseException(db, db, e1)
        ELSE IF r2.error # "none" THEN RaiseException(db, db2, r2.error)
        ELSE [error |-> "none", v_order |-> BuildOrderJson(o, db3.order_items),
              orders |-> db3.orders, order_items |-> db3.order_items,
              order_status_history |-> db3.order_status_history]

\* ------------------------------------------------------------- the cart
\* What the checkout page holds of the cart: one entry per food item, each
\* with the price it was added at and a positive quantity.
CartEntries == [id : FoodIds, price : 1..MaxUnitPrice, quantity : 1..MaxQuantity]

Carts ==
  {c \in SeqsUpTo(CartEntries, MaxItems) :
     \A i, j \in DOMAIN c : i # j => c[i].id # c[j].id}

\* The total summed over the prices alone.
getCartTotal_prices_only(cart) == SumSeq([i \in DOMAIN cart |-> cart[i].price])

\* cart.reduce((total, item) => total + (item.price * item.quantity), 0)
getCartTotal(cart) == SumSeq([i \in DOMAIN cart |-> cart[i].price * cart[i].quantity])

\* cart.map(item => ({food_item_id: item.id, quantity: item.quantity,
\* unit_price: item.price}))
CartToOrderItems(cart) ==
  [i \in DOMAIN cart |->
     [food_item_id |-> cart[i].id, quantity |-> cart[i].quantity,
      unit_price |-> cart[i].price]]

\* ----------------------------------------------------------------- Spec
Tables == [orders |-> orders, order_items |-> order_items,
           order_status_history |-> order_status_history]

\* The catalog: one item on offer, one item currently not available; the id
\* F3 is the id of no food item.
Catalog ==
  {[id |-> "F1", price |-> 1, available |-> TRUE],
   [id |-> "F2", price |-> 1, available |-> FALSE]}

Init ==
  /\ food_items = Catalog
  /\ orders = <<>>
  /\ order_items = <<>>
  /\ order_status_history = <<>>
  /\ next_order_id = 1
  /\ calls = 0
  /\ last = NoCall
  /\ tx = <<>>
  /\ now = 0
  /\ orders_changes = <<>>
  /\ admin = <<>>
  /\ payment_confirmation_history = <<>>
  /\ client = <<>>

\* The effect of one call of the routine on the ledger, with its outcome kept
\* in last.
RunRoutine(via, p) ==
  LET r == create_order_with_items(Tables, food_items, next_order_id, p, now)
  IN  /\ orders' = r.orders
      /\ order_items' = r.order_items
      /\ order_status_history' = r.order_status_history
      /\ next_order_id' = IF r.error = "none" THEN next_order_id + 1 ELSE next_order_id
      /\ last' = [via |-> via, rpc |-> TRUE, p_session_id |-> p.p_session_id,
                  p_total_amount |-> p.p_total_amount,
                  p_tracking_id |-> p.p_tracking_id,
                  p_customer_note |-> p.p_customer_note,
                  p_order_items |-> p.p_order_items,
                  error |-> r.error, v_order |-> r.v_order]

\* A client calls the routine over the REST interface (rpc/create_order_with_items),
\* with arguments of its own choice.
CallRpc ==
  /\ calls < MaxCalls
  /\ \E p_session_id \in SessionIds, p_total_amount \in Totals,
        p_tracking_id \in TrackingIds, p_customer_note \in Notes,
        p_order_items \in ItemLists :
       RunRoutine("rpc", [p_session_id |-> p_session_id,
                          p_total_amount |-> p_total_amount,
                          p_tracking_id |-> p_tracking_id,
                          p_customer_note |-> p_customer_note,
                          p_order_items |-> p_order_items])
  /\ calls' = calls + 1
  /\ now' = now + 1
  /\ UNCHANGED <<payment_confirmation_history, client, food_items, tx, orders_changes, admin>>

\* The outcome of handlePlaceOrder that ends before the routine is called.
ClientError(cart, e) ==
  [via |-> "checkout", rpc |-> FALSE, p_session_id |-> "",
   p_total_amount |-> getCartTotal(cart),
   p_tracking_id |-> "", p_customer_note |-> "",
   p_order_items |-> CartToOrderItems(cart), error |-> e, v_order |-> NoOrder]

\* The body of CheckoutPage.handlePlaceOrder up to the answer of the routine,
\* cart and total being the page's state.
PlaceOrderWith(cart, total, sessionId, trackingId, customerNote) ==
  IF Len(cart) = 0
  THEN /\ last' = ClientError(cart, "cart_empty")
       /\ UNCHANGED <<ledger, next_order_id>>
  ELSE IF total <= 0
  THEN /\ last' = ClientError(cart, "invalid_order_total")
       /\ UNCHANGED <<ledger, next_order_id>>
  ELSE RunRoutine("checkout",
                  [p_session_id |-> sessionId, p_total_amount |-> total,
                   p_tracking_id |-> trackingId,
                   p_customer_note |-> customerNote,
                   p_order_items |-> CartToOrderItems(cart)])

\* CheckoutPage.handlePlaceOrder: cart and total are the page's state, taken
\* from getCart() and getCartTotal() together; the tracking id is generated.
handlePlaceOrder ==
  /\ calls < MaxCalls
  /\ \E cart \in Carts, sessionId \in SessionIds, trackingId \in TrackingIds,
        customerNote \in Notes :
       PlaceOrderWith(cart, getCartTotal(cart), sessionId, trackingId, customerNote)
  /\ calls' = calls + 1
  /\ now' = now + 1
  /\ UNCHANGED <<payment_confirmation_history, client, food_items, tx, orders_changes, admin>>

Next == CallRpc \/ handlePlaceOrder

Spec == Init /\ [][Next]_vars

\* --------------------------------------------------------------- SpecTx
\* Two database sessions, each running one call of the routine in its own
\* transaction, one SQL statement per step. Rows a transaction has written
\* are kept with the transaction (w_orders, w_order_items,
\* w_order_status_history) until it commits: under READ COMMITTED no other
\* session sees them before. The tables hold the committed rows.
Backends == {1, 2}

TxTotals == {t \in Totals : t <= 1}

TxItemLists ==
  {l \in ItemLists : \A i \in DOMAIN l : l[i].unit_price = 1 /\ l[i].quantity <= 1}

TxArgs ==
  [p_session_id : SessionIds, p_total_amount : TxTotals, p_tracking_id : TrackingIds,
   p_customer_note : Notes, p_order_items : TxItemLists]

NoArgs ==
  [p_session_id |-> "", p_total_amount |-> 0, p_tracking_id |-> "",
   p_customer_note |-> "", p_order_items |-> <<>>]

IdleTx ==
  [pc |-> "idle", p |-> NoArgs, now |-> 0, v_order_id |-> 0, i |-> 0, error |-> "none",
   v_order |-> NoOrder, w_orders |-> <<>>, w_order_items |-> <<>>,
   w_order_status_history |-> <<>>]

InitTx ==
  /\ food_items = Catalog
  /\ orders = <<>>
  /\ order_items = <<>>
  /\ order_status_history = <<>>
  /\ next_order_id = 1
  /\ calls = 0
  /\ last = NoCall
  /\ tx = [b \in Backends |-> IdleTx]
  /\ now = 0
  /\ orders_changes = <<>>
  /\ admin = <<>>
  /\ payment_confirmation_history = <<>>
  /\ client = <<>>

\* The transaction of b ends with error e and the rows it wrote stay.
TxAbort_keeping_rows(b, e) ==
  /\ orders' = orders \o tx[b].w_orders
  /\ order_items' = order_items \o tx[b].w_order_items
  /\ order_status_history' = order_status_history \o tx[b].w_order_status_history
  /\ tx' = [tx EXCEPT ![b] = [@ EXCEPT !.pc = "done", !.error = e,
                                 !.v_order = NoOrder, !.w_orders = <<>>,
                                 !.w_order_items = <<>>,
                                 !.w_order_status_history = <<>>]]
  /\ UNCHANGED next_order_id

\* The transaction of b ends with error e: its writes are undone.
TxAbort(b, e) ==
  /\ tx' = [tx EXCEPT ![b] = [@ EXCEPT !.pc = "done", !.error = e,
                                 !.v_order = NoOrder, !.w_orders = <<>>,
                                 !.w_order_items = <<>>,
                                 !.w_order_status_history = <<>>]]
  /\ UNCHANGED <<ledger, next_order_id>>

\* The call arrives and its transaction starts, which fixes its now();
\* IF p_total_amount <= 0 THEN RAISE EXCEPTION.
TxCall(b) ==
  /\ tx[b].pc = "idle"
  /\ \E p \in TxArgs :
       IF InvalidTotalAmount(p.p_total_amount)
       THEN tx' = [tx EXCEPT ![b] = [IdleTx EXCEPT !.pc = "done", !.p = p,
                                                     !.now = now,
                                                     !.error = "invalid_total"]]
       ELSE tx' = [tx EXCEPT ![b] = [IdleTx EXCEPT !.pc = "exists_check", !.p = p,
                                                     !.now = now]]
  /\ now' = now + 1
  /\ UNCHANGED <<payment_confirmation_history, client,
                 food_items, ledger, next_order_id, calls, last, orders_changes, admin>>

\* IF EXISTS (SELECT 1 FROM orders WHERE tracking_id = p_tracking_id): the
\* query sees the committed rows.
TxExistsCheck(b) ==
  /\ tx[b].pc = "exists_check"
  /\ IF DuplicateTrackingId(orders, tx[b].p.p_tracking_id)
     THEN TxAbort(b, "duplicate_tracking")
     ELSE /\ tx' = [tx EXCEPT ![b].pc = "insert_order"]
          /\ UNCHANGED <<ledger, next_order_id>>
  /\ UNCHANGED <<payment_confirmation_history, client,
                 food_items, calls, last, now, orders_changes, admin>>

\* The orders rows written by the other sessions and not yet committed.
UncommittedOrders(b) ==
  LET other == CHOOSE c \in Backends : c # b IN tx[other].w_orders

\* INSERT INTO orders issued outside the transaction: the row is committed
\* at once, ahead of the item and history rows.
TxInsertOrder_committed_at_once(b) ==
  /\ tx[b].pc = "insert_order"
  /\ LET o == NewOrderRow(next_order_id, tx[b].p, tx[b].now)
         e == OrdersInsertError(orders, o)
     IN  IF e # "none" THEN TxAbort(b, e)
         ELSE /\ tx' = [tx EXCEPT ![b] = [@ EXCEPT !.pc = "insert_items",
                                                     !.v_order_id = next_order_id,
                                                     !.i = 1]]
              /\ next_order_id' = next_order_id + 1
              /\ orders' = Append(orders, o)
              /\ UNCHANGED <<order_items, order_status_history>>
  /\ UNCHANGED <<payment_confirmation_history, client,
                 food_items, calls, last, now, orders_changes, admin>>

\* INSERT INTO orders. The unique index makes the insert wait while another
\* transaction holds an uncommitted row with the same tracking_id, and fail
\* when a committed row has it.
TxInsertOrder(b) ==
  /\ tx[b].pc = "insert_order"
  /\ orders_tracking_id_key(UncommittedOrders(b), tx[b].p.p_tracking_id)
  /\ LET o == NewOrderRow(next_order_id, tx[b].p, tx[b].now)
         e == OrdersInsertError(orders, o)
     IN  IF e # "none" THEN TxAbort(b, e)
         ELSE /\ tx' = [tx EXCEPT ![b] = [@ EXCEPT !.pc = "insert_items",
                                                     !.v_order_id = next_order_id,
                                                     !.i = 1, !.w_orders = <<o>>]]
              /\ next_order_id' = next_order_id + 1
              /\ UNCHANGED ledger
  /\ UNCHANGED <<payment_confirmation_history, client,
                 food_items, calls, last, now, orders_changes, admin>>

\* One turn of the loop: INSERT INTO order_items for element i.
TxInsertItem(b) ==
  /\ tx[b].pc = "insert_items"
  /\ tx[b].i <= Len(tx[b].p.p_order_items)
  /\ LET row == NewOrderItemRow(tx[b].v_order_id, tx[b].p.p_order_items[tx[b].i])
         e == OrderItemsInsertError(food_items, row)
     IN  IF e # "none" THEN TxAbort(b, e)
         ELSE /\ tx' = [tx EXCEPT ![b] = [@ EXCEPT !.i = @ + 1,
                                                     !.w_order_items = Append(@, row)]]
              /\ UNCHANGED <<ledger, next_order_id>>
  /\ UNCHANGED <<payment_confirmation_history, client,
                 food_items, calls, last, now, orders_changes, admin>>

\* After the loop: INSERT INTO order_status_history, then the SELECT that
\* builds v_order from the rows the transaction itself wrote.
TxInsertHistory(b) ==
  /\ tx[b].pc = "insert_items"
  /\ tx[b].i > Len(tx[b].p.p_order_items)
  /\ tx' = [tx EXCEPT ![b] =
              [@ EXCEPT !.pc = "commit",
                        !.w_order_status_history = <<InitialHistoryRow(tx[b].v_order_id)>>,
                        !.v_order = BuildOrderJson(NewOrderRow(tx[b].v_order_id, tx[b].p, tx[b].now),
                                                   tx[b].w_order_items)]]
  /\ UNCHANGED <<payment_confirmation_history, client,
                 food_items, ledger, next_order_id, calls, last, now, orders_changes, admin>>

\* RETURN v_order: the statement that called the routine ends and its
\* transaction commits; all its rows become visible together.
TxCommit(b) ==
  /\ tx[b].pc = "commit"
  /\ orders' = orders \o tx[b].w_orders
  /\ order_items' = order_items \o tx[b].w_order_items
  /\ order_status_history' = order_status_history \o tx[b].w_order_status_history
  /\ tx' = [tx EXCEPT ![b] = [@ EXCEPT !.pc = "done", !.w_orders = <<>>,
                                         !.w_order_items = <<>>,
                                         !.w_order_status_history = <<>>]]
  /\ UNCHANGED <<payment_confirmation_history, client,
                 food_items, next_order_id, calls, last, now, orders_changes, admin>>

\* The store becomes unavailable to the session before its transaction has
\* committed: the transaction is rolled back.
TxConnectionLost(b) ==
  /\ tx[b].pc \in {"exists_check", "insert_order", "insert_items", "commit"}
  /\ TxAbort(b, "transient")
  /\ UNCHANGED <<payment_confirmation_history, client,
                 food_items, calls, last, now, orders_changes, admin>>

NextTx ==
  \E b \in Backends :
    \/ TxCall(b)
    \/ TxExistsCheck(b)
    \/ TxInsertOrder(b)
    \/ TxInsertItem(b)
    \/ TxInsertHistory(b)
    \/ TxCommit(b)
    \/ TxConnectionLost(b)

SpecTx == InitTx /\ [][NextTx]_vars

\* ------------------------------------------------------------ SpecAdmin
\* The ledger under the admin dashboards (OrdersQueue, MenuManagement), the
\* stored routines update_order_status and confirm_payment, customers placing
\* orders and the script test-db.ts. Every request of a dashboard is its own
\* database transaction, so updateOrderStatus takes two steps.
MaxNow == 3
MaxOrders == 2

Dashboards == {1}

\* The ids a caller may name: those of the orders, and one of no order.
OrderIds == 1..(MaxOrders + 1)

\* The database without the trigger update_orders_updated_at.
update_updated_at_column_absent(new, ts) == new

\* CREATE TRIGGER update_orders_updated_at BEFORE UPDATE ON orders FOR EACH
\* ROW EXECUTE FUNCTION update_updated_at_column(): NEW.updated_at = now()
update_updated_at_column(new, ts) == [new EXCEPT !.updated_at = ts]

\* SET status = ..., session_id = ''
SetStatus_dropping_session(status) == [status |-> status, session_id |-> ""]

\* UPDATE orders SET status = p_new_status: the columns the statement names,
\* with their values.
SetStatus(status) == [status |-> status]

\* .update({status: newStatus, updated_at: new Date().toISOString()})
SetStatusAndUpdatedAt(status, date) == [status |-> status, updated_at |-> date]

\* The row an UPDATE forms from a row and its SET clause.
SetColumns(row, set) ==
  [c \in DOMAIN row |-> IF c \in DOMAIN set THEN set[c] ELSE row[c]]

\* UPDATE orders SET ... WHERE id = p_order_id; the trigger runs on each row
\* the statement changes, with ts the transaction's now().
UpdateOrders(ords, p_order_id, set, ts) ==
  [i \in DOMAIN ords |->
     IF ords[i].id = p_order_id
     THEN update_updated_at_column(SetColumns(ords[i], set), ts)
     ELSE ords[i]]

OrderExists(ords, id) == \E i \in DOMAIN ords : ords[i].id = id

\* order_status_history: order_id uuid NOT NULL REFERENCES orders(id)
order_status_history_order_id_fkey(ords, order_id) == OrderExists(ords, order_id)

\* INSERT INTO order_status_history (order_id, status) VALUES (...)
HistoryRow(order_id, status) == [order_id |-> order_id, status |-> status]

\* The change of one orders row as the realtime publication carries it: the
\* kind of statement and the new row's id, session_id and status. Kept with
\* it for the claims: the status before the statement (was) and the columns
\* the statement set.
OrdersChange(eventType, was, row, set) ==
  [eventType |-> eventType, id |-> row.id, session_id |-> row.session_id,
   status |-> row.status, was |-> was, set |-> set]

\* The change an INSERT INTO orders publishes.
InsertChange(row) == OrdersChange("INSERT", "none", row, DOMAIN row)

\* The changes an UPDATE ... SET set WHERE id = p_order_id publishes, old
\* being the table before it and ords the table after it: one per row it
\* changed.
UpdateChanges(old, ords, p_order_id, set) ==
  LET changed == SelectSeq([i \in DOMAIN ords |-> [old |-> old[i], new |-> ords[i]]],
                           LAMBDA r : r.new.id = p_order_id)
  IN  [i \in DOMAIN changed |->
         OrdersChange("UPDATE", changed[i].old.status, changed[i].new, DOMAIN set)]

\* OrdersQueue.getNextActions: the target statuses of the buttons shown for an
\* order in this status.
getNextActions(status) ==
  CASE status = "pending" -> {"payment_received", "cancelled"}
    [] status = "payment_received" -> {"confirmed", "cancelled"}
    [] status = "confirmed" -> {"preparing", "cancelled"}
    [] status = "preparing" -> {"dispatched"}
    [] status = "dispatched" -> {"delivered"}
    [] OTHER -> {}

\* What a dashboard keeps of the rows fetchOrders returns (newest first): the
\* id and the status of each order.
OrdersView(ords) ==
  [i \in DOMAIN ords |-> [id |-> ords[Len(ords) + 1 - i].id,
                          status |-> ords[Len(ords) + 1 - i].status]]

MAX_RETRIES == 3

\* OrdersQueue after its first fetch: the view (orders), the call of
\* updateOrderStatus it is in (pc, orderId, newStatus), the toast shown last,
\* and the state of fetchOrders: error, retryCount, the delay of the timer set
\* last, and the invocations of fetchOrders that are waiting for their timer
\* or their response (calls), each known by the retryCount its closure holds.
\* seen is the number of changes of table orders the channel 'admin-orders'
\* has handled; failure is the kind of failure the call of updateOrderStatus
\* has met.
IdleDashboard ==
  [orders |-> <<>>, pc |-> "idle", orderId |-> 0, newStatus |-> "pending",
   toast |-> "none", failure |-> "none", error |-> "none", retryCount |-> 0,
   delay |-> 0, calls |-> {}, seen |-> 0]

\* The orders a customer places in this specification.
AdminOrderArgs ==
  [p_session_id : SessionIds, p_total_amount : {1}, p_tracking_id : TrackingIds,
   p_customer_note : Notes,
   p_order_items : {<<[food_item_id |-> "F1", quantity |-> 1, unit_price |-> 1]>>,
                    <<[food_item_id |-> "F1", quantity |-> 1, unit_price |-> 1],
                      [food_item_id |-> "F2", quantity |-> 1, unit_price |-> 1]>>}]

\* The record of a call of update_order_status or confirm_payment.
StatusCall(via, p_order_id, p_new_status, error) ==
  [via |-> via, rpc |-> TRUE, p_order_id |-> p_order_id,
   p_new_status |-> p_new_status, error |-> error]

InitAdmin ==
  /\ food_items = Catalog
  /\ orders = <<>>
  /\ order_items = <<>>
  /\ order_status_history = <<>>
  /\ next_order_id = 1
  /\ calls = 0
  /\ last = NoCall
  /\ tx = <<>>
  /\ now = 0
  /\ orders_changes = <<>>
  /\ admin = [d \in Dashboards |-> IdleDashboard]
  /\ payment_confirmation_history = <<>>
  /\ client = <<>>

\* A customer places an order through create_order_with_items.
PlaceOrder ==
  /\ now < MaxNow
  /\ Len(orders) < MaxOrders
  /\ \E p \in AdminOrderArgs : RunRoutine("checkout", p)
  /\ orders_changes' =
       IF Len(orders') > Len(orders)
       THEN Append(orders_changes, InsertChange(orders'[Len(orders')]))
       ELSE orders_changes
  /\ calls' = calls + 1
  /\ now' = now + 1
  /\ UNCHANGED <<payment_confirmation_history, client, food_items, tx, admin>>

\* <Button onClick={fetchOrders} disabled={retryCount >= MAX_RETRIES}>
RetryDisabled(a) == a.retryCount >= MAX_RETRIES

\* The closures of fetchOrders that can run next in a dashboard: those waiting
\* (calls) and, unless the error view shows its button disabled, the one of
\* the current render, which the button Refresh or Retry starts.
FetchClosures(a) ==
  a.calls \cup (IF a.error # "none" /\ RetryDisabled(a) THEN {} ELSE {a.retryCount})

\* OrdersQueue.fetchOrders when the query succeeds: setOrders(data),
\* setRetryCount(0); the error was cleared when the call began. Invocations
\* with the same closure are not told apart.
fetchOrders(d) ==
  /\ \E c \in FetchClosures(admin[d]) :
       admin' = [admin EXCEPT ![d] =
                   [@ EXCEPT !.orders = OrdersView(orders), !.error = "none",
                             !.retryCount = 0, !.calls = @ \ {c}]]
  /\ UNCHANGED <<payment_confirmation_history, client,
                 food_items, ledger, next_order_id, calls, last, tx, now, orders_changes>>

\* The catch block without its call of fetchOrders.
CatchFetchOrders_absent(a) == a

\* catch (err) { fetchOrders(); ... }: the call is made with the closure of
\* the render the handler belongs to.
CatchFetchOrders(a) == [a EXCEPT !.calls = @ \cup {a.retryCount}]

\* catch (err): the toast for the error of a request; isError is err
\* instanceof Error, which depends on the version of the client library.
ErrorToast(kind, isError) ==
  IF ~isError THEN "An unexpected error occurred"
  ELSE IF kind = "permission_denied"
  THEN "You do not have permission to update this order"
  ELSE "Failed to update order status. Please try again."

\* The kind of failure behind the error of a request.
FailureOf(kind) ==
  CASE kind = "permission_denied" -> "forbidden"
    [] kind = "foreign_key_violation" -> "not_found"
    [] OTHER -> "transient"

\* updateOrderStatus up to its first await: a button of an order of the
\* dashboard's view is pressed, the view is updated optimistically and the
\* UPDATE of orders is sent. The request fails (the store cannot be reached,
\* or the role lacks the privilege on the table; catch: fetchOrders and an
\* error toast), or the statement runs and changes the row with this id if
\* the policy "Admins can update order status" admits the session, and no row
\* otherwise; neither is an error.
updateOrderStatus_update(d) ==
  /\ admin[d].pc = "idle"
  /\ now < MaxNow
  /\ \E k \in DOMAIN admin[d].orders :
       \E newStatus \in getNextActions(admin[d].orders[k].status) :
         LET orderId == admin[d].orders[k].id
             optimistic == [admin[d] EXCEPT !.orders[k].status = newStatus,
                                            !.orderId = orderId,
                                            !.newStatus = newStatus]
         IN  \/ /\ \E kind \in {"transient", "permission_denied"}, isError \in BOOLEAN :
                     admin' = [admin EXCEPT ![d] =
                       [CatchFetchOrders(optimistic) EXCEPT
                          !.toast = ErrorToast(kind, isError),
                          !.failure = FailureOf(kind)]]
                /\ UNCHANGED <<orders, orders_changes, now>>
             \/ /\ \E admits \in BOOLEAN : \E date \in {0, now} :
                     /\ admin' = [admin EXCEPT ![d] =
                          [optimistic EXCEPT !.pc = "insert_history", !.toast = "none",
                             !.failure = IF admits THEN "none" ELSE "forbidden"]]
                     /\ IF admits
                        THEN /\ orders' = UpdateOrders(orders, orderId,
                                    SetStatusAndUpdatedAt(newStatus, date), now)
                             /\ orders_changes' =
                                  orders_changes \o
                                  UpdateChanges(orders, orders', orderId,
                                                SetStatusAndUpdatedAt(newStatus, date))
                        ELSE UNCHANGED <<orders, orders_changes>>
                /\ now' = now + 1
  /\ UNCHANGED <<payment_confirmation_history, client,
                 food_items, order_items, order_status_history, next_order_id,
                 calls, last, tx>>

\* updateOrderStatus after the UPDATE returned without error: the INSERT into
\* order_status_history, which the policy "Anyone can create status history"
\* admits. It succeeds (success toast), or fails, on the foreign key when no
\* order has the id and else because the store cannot be reached (catch:
\* fetchOrders and an error toast).
updateOrderStatus_insert(d) ==
  /\ admin[d].pc = "insert_history"
  /\ \/ /\ order_status_history_order_id_fkey(orders, admin[d].orderId)
        /\ order_status_history' =
             Append(order_status_history, HistoryRow(admin[d].orderId, admin[d].newStatus))
        /\ admin' = [admin EXCEPT ![d] = [@ EXCEPT !.pc = "idle", !.toast = "success"]]
     \/ /\ UNCHANGED order_status_history
        /\ \E isError \in BOOLEAN :
             LET kind == IF order_status_history_order_id_fkey(orders, admin[d].orderId)
                         THEN "transient" ELSE "foreign_key_violation"
             IN  admin' = [admin EXCEPT ![d] =
                   [CatchFetchOrders(@) EXCEPT !.pc = "idle",
                      !.toast = ErrorToast(kind, isError),
                      !.failure = FailureOf(kind)]]
  /\ UNCHANGED <<payment_confirmation_history, client,
                 food_items, orders, order_items, next_order_id, calls, last, tx,
                 now, orders_changes>>

\* The stored routine update_order_status, called over rpc: UPDATE orders,
\* then INSERT INTO order_status_history, in one transaction. The insert fails
\* on the foreign key when no order has this id, which undoes the call.
update_order_status ==
  /\ now < MaxNow
  /\ \E p_order_id \in OrderIds, p_new_status \in order_status_enum :
       IF order_status_history_order_id_fkey(orders, p_order_id)
       THEN /\ orders' = UpdateOrders(orders, p_order_id, SetStatus(p_new_status), now)
            /\ orders_changes' =
                 orders_changes \o
                 UpdateChanges(orders, orders', p_order_id, SetStatus(p_new_status))
            /\ order_status_history' =
                 Append(order_status_history, HistoryRow(p_order_id, p_new_status))
            /\ last' = StatusCall("update_order_status", p_order_id, p_new_status, "none")
       ELSE /\ UNCHANGED <<orders, orders_changes, order_status_history>>
            /\ last' = StatusCall("update_order_status", p_order_id, p_new_status,
                                  "foreign_key_violation")
  /\ calls' = calls + 1
  /\ now' = now + 1
  /\ UNCHANGED <<payment_confirmation_history, client,
                 food_items, order_items, next_order_id, tx, admin>>

\* admin_credentials.id of the rows of admin_credentials.
admin_credentials == {"admin"}

\* The admin ids a caller may name: those of the admins, and one of no admin.
AdminIds == admin_credentials \cup {"nobody"}

\* UPDATE orders SET payment_status = 'confirmed', payment_confirmed_at = ...,
\* payment_confirmed_by = p_admin_id: of these columns payment_status is kept.
SetPaymentConfirmed == [payment_status |-> "confirmed"]

\* INSERT INTO payment_confirmation_history (order_id, confirmed_by, status,
\* note) VALUES (p_order_id, p_admin_id, 'confirmed', p_note)
PaymentConfirmationRow(p_order_id, p_admin_id) ==
  [order_id |-> p_order_id, confirmed_by |-> p_admin_id, status |-> "confirmed"]

\* confirm_payment with foreign keys that are not checked.
ConfirmPaymentError_unchecked(ords, p_order_id, p_admin_id) == "none"

\* The error the statements of confirm_payment raise: orders.payment_confirmed_by
\* and payment_confirmation_history.confirmed_by REFERENCES
\* admin_credentials(id), payment_confirmation_history.order_id REFERENCES
\* orders(id).
ConfirmPaymentError(ords, p_order_id, p_admin_id) ==
  IF p_admin_id \notin admin_credentials \/ ~OrderExists(ords, p_order_id)
  THEN "foreign_key_violation"
  ELSE "none"

\* The record of a call of confirm_payment.
PaymentCall(p_order_id, p_admin_id, error) ==
  [via |-> "confirm_payment", rpc |-> TRUE, p_order_id |-> p_order_id,
   p_admin_id |-> p_admin_id, p_new_status |-> "confirmed", error |-> error]

\* The stored routine confirm_payment, one transaction: UPDATE orders (the
\* payment columns), INSERT INTO payment_confirmation_history, UPDATE orders
\* SET status = 'confirmed', INSERT INTO order_status_history. A statement
\* that raises an error undoes the call.
confirm_payment ==
  /\ now < MaxNow
  /\ \E p_order_id \in OrderIds, p_admin_id \in AdminIds :
       LET error == ConfirmPaymentError(orders, p_order_id, p_admin_id)
           paid == UpdateOrders(orders, p_order_id, SetPaymentConfirmed, now)
           confirmed == UpdateOrders(paid, p_order_id, SetStatus("confirmed"), now)
       IN  /\ last' = PaymentCall(p_order_id, p_admin_id, error)
           /\ IF error = "none"
              THEN /\ orders' = confirmed
                   /\ payment_confirmation_history' =
                        Append(payment_confirmation_history,
                               PaymentConfirmationRow(p_order_id, p_admin_id))
                   /\ order_status_history' =
                        Append(order_status_history, HistoryRow(p_order_id, "confirmed"))
                   /\ orders_changes' =
                        orders_changes
                        \o UpdateChanges(orders, paid, p_order_id, SetPaymentConfirmed)
                        \o UpdateChanges(paid, confirmed, p_order_id, SetStatus("confirmed"))
              ELSE UNCHANGED <<orders, orders_changes, order_status_history,
                               payment_confirmation_history>>
  /\ calls' = calls + 1
  /\ now' = now + 1
  /\ UNCHANGED <<client, food_items, order_items, next_order_id, tx, admin>>

\* MenuManagement.handleDelete: DELETE FROM food_items WHERE id = ...; the
\* foreign key of order_items is ON DELETE CASCADE, so the order_items rows of
\* the food item go with it.
handleDelete ==
  /\ now < MaxNow
  /\ \E f \in food_items :
       /\ food_items' = food_items \ {f}
       /\ order_items' = SelectSeq(order_items, LAMBDA r : r.food_item_id # f.id)
  /\ now' = now + 1
  /\ UNCHANGED <<payment_confirmation_history, client,
                 orders, order_status_history, next_order_id, calls, last, tx,
                 orders_changes, admin>>

\* MenuManagement.handleSave for an item being edited: UPDATE food_items with
\* the form's values, of which the price (validated to be positive) is kept
\* here.
handleSave ==
  /\ now < MaxNow
  /\ \E f \in food_items, price \in 1..(MaxUnitPrice + 1) :
       food_items' = (food_items \ {f}) \cup {[f EXCEPT !.price = price]}
  /\ now' = now + 1
  /\ UNCHANGED <<payment_confirmation_history, client,
                 ledger, next_order_id, calls, last, tx, orders_changes, admin>>

\* MenuManagement.handleToggleAvailability(id, currentStatus), currentStatus
\* being the value of the dashboard's copy of the item.
handleToggleAvailability ==
  /\ now < MaxNow
  /\ \E f \in food_items, currentStatus \in BOOLEAN :
       food_items' = (food_items \ {f}) \cup {[f EXCEPT !.available = ~currentStatus]}
  /\ now' = now + 1
  /\ UNCHANGED <<payment_confirmation_history, client,
                 ledger, next_order_id, calls, last, tx, orders_changes, admin>>

\* The orders row test-db.ts inserts: status, payment_status and updated_at
\* are left to their defaults.
TestOrderRow(id, ts) ==
  [id |-> id, session_id |-> "uuidv4", total_amount |-> MaxTotal,
   status |-> "pending", tracking_id |-> "TEST-1", customer_note |-> "Test order",
   payment_status |-> "pending", updated_at |-> ts]

\* test-db.ts, testDatabase: it reads the food items the policy "Anyone can
\* view available food items" shows, inserts a row into orders and, if it read
\* a food item, a row into order_items for the first one with quantity 2.
\* Both inserts pass the policies "Users can create orders" and "Users can
\* create order items" (WITH CHECK (true)).
testDatabase ==
  /\ now < MaxNow
  /\ Len(orders) < MaxOrders
  /\ LET o == TestOrderRow(next_order_id, now)
         foodItems == {f \in food_items : f.available}
     IN  /\ OrdersInsertError(orders, o) = "none"
         /\ orders' = Append(orders, o)
         /\ orders_changes' = Append(orders_changes, InsertChange(o))
         /\ IF foodItems = {}
            THEN UNCHANGED order_items
            ELSE \E f \in foodItems :
                   LET row == [order_id |-> o.id, food_item_id |-> f.id,
                               quantity |-> 2, unit_price |-> f.price]
                   IN  IF OrderItemsInsertError(food_items, row) = "none"
                       THEN order_items' = Append(order_items, row)
                       ELSE UNCHANGED order_items
  /\ next_order_id' = next_order_id + 1
  /\ now' = now + 1
  /\ UNCHANGED <<payment_confirmation_history, client,
                 food_items, order_status_history, calls, last, tx, admin>>

NextAdmin ==
  \/ PlaceOrder
  \/ \E d \in Dashboards : fetchOrders(d)
  \/ \E d \in Dashboards : updateOrderStatus_update(d)
  \/ \E d \in Dashboards : updateOrderStatus_insert(d)
  \/ update_order_status
  \/ confirm_payment
  \/ handleDelete
  \/ handleSave
  \/ handleToggleAvailability
  \/ testDatabase

SpecAdmin == InitAdmin /\ [][NextAdmin]_vars

\* ------------------------------------------------------------ SpecQueue
\* One dashboard from its mount on: fetchOrders with a store that can fail,
\* its automatic retries and its buttons, and the channel 'admin-orders',
\* while customers place orders and another client changes their statuses.
MaxRetryCount == 4

\* useEffect(() => { fetchOrders(); ... }, []): the first render's fetchOrders
\* has been called, its closure holding retryCount = 0.
MountedDashboard == [IdleDashboard EXCEPT !.calls = {0}]

InitQueue ==
  /\ food_items = Catalog
  /\ orders = <<>>
  /\ order_items = <<>>
  /\ order_status_history = <<>>
  /\ next_order_id = 1
  /\ calls = 0
  /\ last = NoCall
  /\ tx = <<>>
  /\ now = 0
  /\ orders_changes = <<>>
  /\ admin = [d \in Dashboards |-> MountedDashboard]
  /\ payment_confirmation_history = <<>>
  /\ client = <<>>

\* OrdersQueue.fetchOrders when the query fails, c being the retryCount its
\* closure holds: setError; if (retryCount < MAX_RETRIES) { setRetryCount(prev
\* => prev + 1); setTimeout(fetchOrders, 1000 * Math.pow(2, retryCount)) }.
\* The timer calls the same closure again.
fetchOrders_failed(d) ==
  /\ admin[d].retryCount < MaxRetryCount
  /\ \E c \in FetchClosures(admin[d]) :
       admin' = [admin EXCEPT ![d] =
                   IF c < MAX_RETRIES
                   THEN [@ EXCEPT !.error = "Failed to fetch orders",
                                  !.retryCount = @ + 1, !.delay = 1000 * 2^c,
                                  !.calls = @ \cup {c}]
                   ELSE [@ EXCEPT !.error = "Failed to fetch orders",
                                  !.calls = @ \ {c}]]
  /\ UNCHANGED <<payment_confirmation_history, client,
                 food_items, ledger, next_order_id, calls, last, tx, now, orders_changes>>

\* filter: 'status=neq.delivered', applied to the new row of the change.
admin_orders_filter(e) == e.status # "delivered"

\* The channel 'admin-orders' handles the next change of table orders: if the
\* filter lets it through, the callback calls the fetchOrders of the first
\* render.
admin_orders_channel(d) ==
  /\ admin[d].seen < Len(orders_changes)
  /\ admin' = [admin EXCEPT ![d] =
                 [@ EXCEPT !.seen = @ + 1,
                           !.calls = IF admin_orders_filter(orders_changes[admin[d].seen + 1])
                                     THEN @ \cup {0} ELSE @]]
  /\ UNCHANGED <<payment_confirmation_history, client,
                 food_items, ledger, next_order_id, calls, last, tx, now, orders_changes>>

NextQueue ==
  \/ PlaceOrder
  \/ update_order_status
  \/ \E d \in Dashboards : fetchOrders(d)
  \/ \E d \in Dashboards : fetchOrders_failed(d)
  \/ \E d \in Dashboards : admin_orders_channel(d)

SpecQueue == InitQueue /\ [][NextQueue]_vars

\* ------------------------------------------------------------- SpecCart
\* The browser of one customer: the cart kept in localStorage and changed by
\* the functions of cart.ts, and the checkout page, which copies the cart
\* when it is opened and places the order.

\* The customer's pages before anything is done: an empty cart, the menu
\* page. checkout is the state of CheckoutPage (cart, total), tracking and
\* order are the state of OrderSuccessPage, statusSeen is the number of
\* changes of table orders behind its channel 'order-status', seen is the
\* number of changes the channel 'order-updates' has handled and toasts the
\* statuses it has notified.
IdleClient ==
  [cart |-> <<>>, route |-> "/", checkout |-> [cart |-> <<>>, total |-> 0],
   isProcessing |-> FALSE, tracking |-> "", order |-> NoOrder, statusSeen |-> 0,
   seen |-> 0, toasts |-> <<>>]

\* cart.find(cartItem => cartItem.id === id)
InCart(cart, id) == \E i \in DOMAIN cart : cart[i].id = id

\* addToCart that pushes a new entry whether or not the id is in the cart.
addToCart_pushing(cart, item, quantity) ==
  Append(cart, [id |-> item.id, price |-> item.price, quantity |-> quantity])

\* cart.ts addToCart(item, quantity): existingItem.quantity += quantity, or
\* cart.push({...item, quantity}).
addToCart(cart, item, quantity) ==
  IF InCart(cart, item.id)
  THEN [i \in DOMAIN cart |->
          IF cart[i].id = item.id
          THEN [cart[i] EXCEPT !.quantity = @ + quantity]
          ELSE cart[i]]
  ELSE Append(cart, [id |-> item.id, price |-> item.price, quantity |-> quantity])

\* cart.ts removeFromCart(id): cart.filter(item => item.id !== id)
removeFromCart(cart, id) == SelectSeq(cart, LAMBDA e : e.id # id)

\* cart.ts updateCartItemQuantity(id, quantity)
updateCartItemQuantity(cart, id, quantity) ==
  IF ~InCart(cart, id) THEN cart
  ELSE IF quantity <= 0 THEN removeFromCart(cart, id)
  ELSE [i \in DOMAIN cart |->
          IF cart[i].id = id THEN [cart[i] EXCEPT !.quantity = quantity] ELSE cart[i]]

\* cart.ts clearCart(): localStorage.removeItem(CART_KEY), after which
\* getCart() returns [].
clearCart == <<>>

\* The record of a call of a function of cart.ts.
CartCall(via, id, quantity) ==
  [via |-> via, rpc |-> FALSE, id |-> id, quantity |-> quantity, error |-> "none"]

InitCart ==
  /\ food_items = Catalog
  /\ orders = <<>>
  /\ order_items = <<>>
  /\ order_status_history = <<>>
  /\ next_order_id = 1
  /\ calls = 0
  /\ last = NoCall
  /\ tx = <<>>
  /\ now = 0
  /\ orders_changes = <<>>
  /\ admin = <<>>
  /\ payment_confirmation_history = <<>>
  /\ client = IdleClient

\* What a step of the browser leaves alone in the database.
database == <<food_items, ledger, next_order_id, calls, tx, now, orders_changes,
              admin, payment_confirmation_history>>

\* FoodCard or the cart page calls addToCart for an item of the menu with a
\* positive quantity.
CallAddToCart ==
  \E item \in food_items, quantity \in 1..MaxQuantity :
    /\ \A i \in DOMAIN client.cart :
         client.cart[i].id = item.id => client.cart[i].quantity + quantity <= MaxQuantity
    /\ client' = [client EXCEPT !.cart = addToCart(@, item, quantity)]
    /\ last' = CartCall("addToCart", item.id, quantity)
    /\ UNCHANGED database

CallUpdateCartItemQuantity ==
  \E id \in FoodItemIds(food_items), quantity \in (-1)..MaxQuantity :
    /\ client' = [client EXCEPT !.cart = updateCartItemQuantity(@, id, quantity)]
    /\ last' = CartCall("updateCartItemQuantity", id, quantity)
    /\ UNCHANGED database

CallRemoveFromCart ==
  \E id \in FoodItemIds(food_items) :
    /\ client' = [client EXCEPT !.cart = removeFromCart(@, id)]
    /\ last' = CartCall("removeFromCart", id, 0)
    /\ UNCHANGED database

CallClearCart ==
  /\ client' = [client EXCEPT !.cart = clearCart]
  /\ last' = CartCall("clearCart", "", 0)
  /\ UNCHANGED database

\* CheckoutPage is opened; its effect reads getCart() and getCartTotal() and
\* goes back to '/' if the cart is empty.
CheckoutPage_useEffect ==
  /\ client.route # "/checkout"
  /\ client' =
       IF Len(client.cart) = 0
       THEN [client EXCEPT !.route = "/"]
       ELSE [client EXCEPT !.route = "/checkout",
                           !.checkout = [cart |-> client.cart,
                                         total |-> getCartTotal(client.cart)]]
  /\ last' = CartCall("CheckoutPage", "", 0)
  /\ UNCHANGED database

\* The end of handlePlaceOrder with the cart cleared whatever the outcome.
AfterPlaceOrder_always_clearing(c, error, trackingId) ==
  [c EXCEPT !.cart = clearCart, !.isProcessing = FALSE]

\* The end of handlePlaceOrder: after the routine answered without error,
\* clearCart() and router.push('/order-success?tracking=' + trackingId),
\* where OrderSuccessPage starts with no order; after an error only the
\* toast; finally setIsProcessing(false).
AfterPlaceOrder(c, error, trackingId) ==
  IF error = "none"
  THEN [c EXCEPT !.cart = clearCart, !.route = "/order-success",
                 !.tracking = trackingId, !.order = NoOrder,
                 !.isProcessing = FALSE]
  ELSE [c EXCEPT !.isProcessing = FALSE]

\* CheckoutPage.handlePlaceOrder with the page's cart and total, the session
\* id of the browser and a tracking id generated for this call. The request
\* may also fail before the routine runs.
CheckoutPage_handlePlaceOrder ==
  /\ client.route = "/checkout"
  /\ calls < MaxCalls
  /\ \E trackingId \in TrackingIds, customerNote \in Notes :
       /\ \/ PlaceOrderWith(client.checkout.cart, client.checkout.total,
                            "s1", trackingId, customerNote)
          \/ /\ last' = ClientError(client.checkout.cart, "transient")
             /\ UNCHANGED <<ledger, next_order_id>>
       /\ client' = AfterPlaceOrder(client, last'.error, trackingId)
  /\ orders_changes' =
       IF Len(orders') > Len(orders)
       THEN Append(orders_changes, InsertChange(orders'[Len(orders')]))
       ELSE orders_changes
  /\ calls' = calls + 1
  /\ now' = now + 1
  /\ UNCHANGED <<payment_confirmation_history, food_items, tx, admin>>

NextCart ==
  \/ CallAddToCart
  \/ CallUpdateCartItemQuantity
  \/ CallRemoveFromCart
  \/ CallClearCart
  \/ CheckoutPage_useEffect
  \/ CheckoutPage_handlePlaceOrder

SpecCart == InitCart /\ [][NextCart]_vars

\* --------------------------------------------------------- SpecTracking
\* The browser of one customer following its orders: OrderSuccessPage, which
\* looks an order up by its tracking id, and NotificationProvider, which
\* listens to the changes of the orders of the browser's session. Orders are
\* placed by this customer and by another one, and their status is changed
\* through the stored routines.

\* session.ts getSessionId(): the id kept in localStorage for this browser.
getSessionId == "s1"

\* The sessions that place orders: the browser's and another customer's.
CustomerSessionIds == {getSessionId, "s2"}

\* The tracking ids the success page is opened with: those orders are placed
\* with and one no order has.
TrackingCodes == TrackingIds \cup {"FPI-ZZZZZZ"}

\* current_setting('app.session_id', true) in the request of the browser. No
\* code of the repository sets it, so its value is whatever the deployment
\* makes it: not set (""), or the id of a session.
AppSessionIdSettings == {""} \cup CustomerSessionIds

\* The orders placed in this specification.
TrackingOrderArgs ==
  [p_session_id : CustomerSessionIds, p_total_amount : {1},
   p_tracking_id : TrackingIds, p_customer_note : Notes,
   p_order_items : {<<[food_item_id |-> "F1", quantity |-> 1, unit_price |-> 1]>>}]

InitTracking ==
  /\ food_items = Catalog
  /\ orders = <<>>
  /\ order_items = <<>>
  /\ order_status_history = <<>>
  /\ next_order_id = 1
  /\ calls = 0
  /\ last = NoCall
  /\ tx = <<>>
  /\ now = 0
  /\ orders_changes = <<>>
  /\ admin = <<>>
  /\ payment_confirmation_history = <<>>
  /\ client = IdleClient

\* A customer, of this browser or of another, places an order through
\* create_order_with_items.
CustomerPlacesOrder ==
  /\ now < MaxNow
  /\ Len(orders) < MaxOrders
  /\ \E p \in TrackingOrderArgs : RunRoutine("checkout", p)
  /\ orders_changes' =
       IF Len(orders') > Len(orders)
       THEN Append(orders_changes, InsertChange(orders'[Len(orders')]))
       ELSE orders_changes
  /\ calls' = calls + 1
  /\ now' = now + 1
  /\ UNCHANGED <<payment_confirmation_history, client, food_items, tx, admin>>

\* POLICY "Users can view their own orders" ON orders FOR SELECT TO public
\* USING (session_id = current_setting('app.session_id', true))
UsersCanViewTheirOwnOrders(row, setting) == row.session_id = setting

\* The rows the query of fetchOrder selects without .eq('session_id', ...).
OrderLookup_any_session(ords, trackingId, sessionId, setting) ==
  SelectSeq(ords, LAMBDA o : /\ UsersCanViewTheirOwnOrders(o, setting)
                             /\ o.tracking_id = trackingId)

\* from('orders').select(...).eq('tracking_id', trackingId)
\* .eq('session_id', getSessionId()): the rows the policy lets the request
\* see that have this tracking id and this session id.
OrderLookup(ords, trackingId, sessionId, setting) ==
  SelectSeq(ords, LAMBDA o : /\ UsersCanViewTheirOwnOrders(o, setting)
                             /\ o.tracking_id = trackingId
                             /\ o.session_id = sessionId)

\* .single(): the row if the query selects exactly one, an error otherwise.
\* The row comes with its order_items (select `*, order_items (*)`).
Single(rows, items) ==
  IF Len(rows) = 1
  THEN [error |-> "none", data |-> BuildOrderJson(rows[1], items)]
  ELSE [error |-> "PGRST116", data |-> NoOrder]

\* The record of a call of fetchOrder.
FetchCall(trackingId, r) ==
  [via |-> "fetchOrder", rpc |-> FALSE, p_tracking_id |-> trackingId,
   error |-> r.error, data |-> r.data]

\* OrderSuccessPage.fetchOrder for the page state c: nothing without a
\* tracking id; otherwise the query, and setOrder(data) unless it gave an
\* error.
fetchOrder(c, setting) ==
  LET r == Single(OrderLookup(orders, c.tracking, getSessionId, setting), order_items)
  IN  IF c.tracking = ""
      THEN /\ client' = c
           /\ UNCHANGED last
      ELSE /\ client' = IF r.error # "none" THEN c ELSE [c EXCEPT !.order = r.data]
           /\ last' = FetchCall(c.tracking, r)

\* What a step of the browser leaves alone in this specification.
backend == <<food_items, ledger, next_order_id, calls, tx, now, orders_changes,
             admin, payment_confirmation_history>>

\* OrderSuccessPage is opened with ?tracking=trackingId: its effect calls
\* fetchOrder() and subscribes the channel 'order-status', which carries the
\* changes published from then on.
OrderSuccessPage_useEffect ==
  \E trackingId \in TrackingCodes, setting \in AppSessionIdSettings :
    /\ client.route # "/order-success" \/ client.tracking # trackingId
    /\ fetchOrder([client EXCEPT !.route = "/order-success",
                                 !.tracking = trackingId, !.order = NoOrder,
                                 !.statusSeen = Len(orders_changes)],
                  setting)
    /\ UNCHANGED backend

\* orders.tracking_id of the row with this id ("" if there is none).
TrackingIdOf(ords, id) ==
  IF OrderExists(ords, id)
  THEN ords[CHOOSE i \in DOMAIN ords : ords[i].id = id].tracking_id
  ELSE ""

\* The channel 'order-status' of OrderSuccessPage (event 'UPDATE', filter
\* tracking_id=eq.trackingId) takes the next change of table orders: its
\* callback calls fetchOrder().
order_status_channel ==
  /\ client.route = "/order-success"
  /\ client.statusSeen < Len(orders_changes)
  /\ LET e == orders_changes[client.statusSeen + 1]
         c == [client EXCEPT !.statusSeen = @ + 1]
     IN  IF e.eventType = "UPDATE" /\ TrackingIdOf(orders, e.id) = client.tracking
         THEN \E setting \in AppSessionIdSettings : fetchOrder(c, setting)
         ELSE client' = c /\ UNCHANGED last
  /\ UNCHANGED backend

\* payload.old of a change of table orders: the table has the default replica
\* identity (no migration sets another one) and row level security, so the
\* old record holds the primary key alone.
PayloadOld(e) == [id |-> e.id]

\* oldOrder.status as JavaScript reads it: undefined for a column the record
\* does not hold.
StatusOf(record) == IF "status" \in DOMAIN record THEN record.status ELSE "undefined"

\* The callback of the channel 'order-updates': for an UPDATE whose
\* newOrder.status !== oldOrder.status, handleOrderStatusChange shows the
\* toast of the new status.
OnOrderUpdate(c, e) ==
  IF e.eventType = "UPDATE" /\ e.status # StatusOf(PayloadOld(e))
  THEN [c EXCEPT !.toasts = Append(@, e.status)]
  ELSE c

\* The channel 'order-updates' of NotificationProvider (event '*', filter
\* session_id=eq.sessionId) takes the next change of table orders: a change
\* of another session's row is not delivered, the others go to the callback.
order_updates_channel ==
  /\ client.seen < Len(orders_changes)
  /\ LET e == orders_changes[client.seen + 1]
         c == [client EXCEPT !.seen = @ + 1]
     IN  client' = IF e.session_id = getSessionId THEN OnOrderUpdate(c, e) ELSE c
  /\ UNCHANGED <<last, backend>>

NextTracking ==
  \/ CustomerPlacesOrder
  \/ update_order_status
  \/ confirm_payment
  \/ OrderSuccessPage_useEffect
  \/ order_status_channel
  \/ order_updates_channel

SpecTracking == InitTracking /\ [][NextTracking]_vars

\* =============================================================== claims
\* Vocabulary of the claims, stated on the tables and on the call record
\* rather than through the routine's own tests.

\* The step is a call (Spec).
IsCall == calls' = calls + 1

\* The step is a call in which the routine was invoked (Spec).
IsRoutineCall == IsCall /\ last'.rpc

TrackingIdPresent(ords, t) == \E i \in DOMAIN ords : ords[i].tracking_id = t

OrdersWithTrackingId(ords, t) == {i \in DOMAIN ords : ords[i].tracking_id = t}

PositiveItem(it) == it.quantity > 0 /\ it.unit_price > 0

ExistingFood(foods, it) == \E f \in foods : f.id = it.food_item_id

UnavailableFood(foods, it) == \E f \in foods : f.id = it.food_item_id /\ ~f.available

AllItems(items, P(_)) == \A i \in DOMAIN items : P(items[i])

\* The rows of a table that belong to one order, without the owner column.
StoredItems(rows, order_id) ==
  LET own == ItemsOfOrder(rows, order_id)
  IN  [i \in DOMAIN own |-> [food_item_id |-> own[i].food_item_id,
                             quantity |-> own[i].quantity,
                             unit_price |-> own[i].unit_price]]

ItemsSum(items) == SumSeq([i \in DOMAIN items |-> items[i].unit_price * items[i].quantity])

\* t extends s by exactly n rows at its end.
ExtendsBy(t, s, n) == Len(t) = Len(s) + n /\ SubSeq(t, 1, Len(s)) = s

\* No row of these tables belongs to the order with this id.
NoRowOfOrder(ords, items, history, id) ==
  /\ \A i \in DOMAIN ords : ords[i].id # id
  /\ \A i \in DOMAIN items : items[i].order_id # id
  /\ \A i \in DOMAIN history : history[i].order_id # id

\* ------------------------------------------------------------------- C1
C1_Step ==
  ( /\ IsRoutineCall
    /\ last'.p_total_amount > 0
    /\ ~TrackingIdPresent(orders, last'.p_tracking_id)
    /\ Len(last'.p_order_items) > 0
    /\ AllItems(last'.p_order_items, PositiveItem)
    /\ AllItems(last'.p_order_items, LAMBDA it : ExistingFood(food_items, it)) )
  => /\ last'.error = "none"
     /\ ExtendsBy(orders', orders, 1)
     /\ ExtendsBy(order_items', order_items, Len(last'.p_order_items))
     /\ ExtendsBy(order_status_history', order_status_history, 1)
     /\ LET o == orders'[Len(orders')]
        IN  /\ \A i \in DOMAIN orders : orders[i].id # o.id
            /\ o.status = "pending"
            /\ o.tracking_id = last'.p_tracking_id
            /\ o.session_id = last'.p_session_id
            /\ o.total_amount = last'.p_total_amount
            /\ SameRows(StoredItems(order_items', o.id), last'.p_order_items)
            /\ HistoryOfOrder(order_status_history', o.id)
                 = <<[order_id |-> o.id, status |-> "pending"]>>
            /\ last'.v_order.id = o.id
            /\ SameRows(last'.v_order.order_items, last'.p_order_items)

\* C1: every call of create_order_with_items with a positive total, a tracking
\* code not yet in orders and a non-empty list of n tuples (existing food item,
\* positive quantity and unit price) succeeds and adds exactly one 'pending'
\* orders row, exactly n order_items rows of that order carrying the tuples,
\* and exactly one 'pending' history row; the returned order carries the items.
C1_ValidCallCreatesOrder == [][C1_Step]_vars

\* A call with two different valid tuples has succeeded.
C1_Witness ==
  /\ last.rpc /\ last.error = "none"
  /\ Len(last.p_order_items) = 2
  /\ last.p_order_items[1] # last.p_order_items[2]
  /\ Len(ItemsOfOrder(order_items, last.v_order.id)) = 2

\* ------------------------------------------------------------------- C2
C2_Step ==
  \A b \in DOMAIN tx :
    (tx[b].pc # "done" /\ tx'[b].pc = "done" /\ tx'[b].error # "none")
    => /\ UNCHANGED ledger
       /\ NoRowOfOrder(orders', order_items', order_status_history', tx'[b].v_order_id)

\* C2: when a step of create_order_with_items fails (the order insert, one of
\* the item inserts, the history insert, or the loss of the store in between),
\* orders, order_items and order_status_history are as before the call: no row
\* of that order, of its items or of its history exists.
C2_FailureLeavesNoRow == [][C2_Step]_vars

\* A call failed on its second item, after its order row and its first item
\* row had been written.
C2_Witness ==
  \E b \in DOMAIN tx :
    /\ tx[b].pc = "done" /\ tx[b].error = "foreign_key_violation"
    /\ tx[b].v_order_id # 0 /\ tx[b].i = 2

\* ------------------------------------------------------------------- C3
TxOtherwiseValid(p) ==
  /\ p.p_total_amount > 0
  /\ AllItems(p.p_order_items, PositiveItem)
  /\ AllItems(p.p_order_items, LAMBDA it : ExistingFood(food_items, it))

\* The outcome the claim allows when a won and b lost.
C3_WinnerAndLoser(a, b) ==
  /\ tx[a].error = "none"
  /\ tx[b].error \in {"unique_violation", "duplicate_tracking"}
  /\ Cardinality(OrdersWithTrackingId(orders, tx[a].p.p_tracking_id)) = 1
  /\ \A i \in DOMAIN orders : orders[i].id = tx[a].v_order_id
  /\ SameRows(order_items,
              [i \in DOMAIN tx[a].p.p_order_items |->
                 NewOrderItemRow(tx[a].v_order_id, tx[a].p.p_order_items[i])])
  /\ order_status_history = <<[order_id |-> tx[a].v_order_id, status |-> "pending"]>>

\* C3: of two concurrent calls of create_order_with_items with the same
\* tracking code (and otherwise acceptable arguments, the store staying
\* available), in every interleaving exactly one succeeds and the other fails
\* with a uniqueness error; afterwards exactly one order has that tracking
\* code and only the winner's items and history row exist.
C3_OneWinnerPerTrackingId ==
  \A a \in DOMAIN tx : \A b \in DOMAIN tx :
    ( /\ a # b
      /\ tx[a].pc = "done" /\ tx[b].pc = "done"
      /\ tx[a].p.p_tracking_id = tx[b].p.p_tracking_id
      /\ TxOtherwiseValid(tx[a].p) /\ TxOtherwiseValid(tx[b].p)
      /\ tx[a].error # "transient" /\ tx[b].error # "transient" )
    => (C3_WinnerAndLoser(a, b) \/ C3_WinnerAndLoser(b, a))

\* Both calls passed the EXISTS test before either inserted, and the loser
\* was stopped by the unique index.
C3_Witness ==
  \E a \in DOMAIN tx : \E b \in DOMAIN tx :
    /\ a # b
    /\ tx[a].pc = "done" /\ tx[b].pc = "done"
    /\ tx[a].p.p_tracking_id = tx[b].p.p_tracking_id
    /\ tx[a].error = "none" /\ tx[b].error = "unique_violation"
    /\ Len(tx[a].p.p_order_items) > 0 /\ Len(tx[b].p.p_order_items) > 0

\* ------------------------------------------------------------------- C4
C4_Step ==
  ( /\ IsRoutineCall
    /\ last'.p_total_amount > 0
    /\ TrackingIdPresent(orders, last'.p_tracking_id) )
  => /\ last'.error = "duplicate_tracking"
     /\ UNCHANGED ledger
     /\ Cardinality(OrdersWithTrackingId(orders', last'.p_tracking_id)) = 1

\* C4: a call of create_order_with_items made after a call with the same
\* tracking code has succeeded fails with the duplicate-tracking-id error and
\* adds no orders, order_items or order_status_history row: the ledger still
\* holds exactly one order with that tracking code.
C4_SecondCallIsRejected == [][C4_Step]_vars

\* The second of two calls with the same tracking code was refused although
\* its items were acceptable.
C4_Witness ==
  /\ calls = 2 /\ last.rpc /\ last.error = "duplicate_tracking"
  /\ Len(orders) = 1 /\ orders[1].tracking_id = last.p_tracking_id
  /\ Len(last.p_order_items) > 0
  /\ AllItems(last.p_order_items, PositiveItem)
  /\ AllItems(last.p_order_items, LAMBDA it : ExistingFood(food_items, it))

\* ------------------------------------------------------------------- C5
\* C5: a reader never sees an orders row of create_order_with_items without
\* all of that order's order_items rows and its 'pending' history row: in
\* every state, each committed order has the items of the call that made it
\* and its initial history row.
C5_OrderVisibleWithItemsAndHistory ==
  \A k \in DOMAIN orders :
    \E b \in DOMAIN tx :
      /\ tx[b].v_order_id = orders[k].id
      /\ SameRows(StoredItems(order_items, orders[k].id), tx[b].p.p_order_items)
      /\ HistoryOfOrder(order_status_history, orders[k].id)
           = <<[order_id |-> orders[k].id, status |-> "pending"]>>

\* One order with two items is visible while the other session has written
\* its order row and not yet committed.
C5_Witness ==
  \E a \in DOMAIN tx : \E b \in DOMAIN tx :
    /\ a # b
    /\ tx[a].pc = "done" /\ tx[a].error = "none" /\ Len(tx[a].p.p_order_items) = 2
    /\ Len(orders) = 1 /\ orders[1].id = tx[a].v_order_id
    /\ tx[b].pc = "insert_items" /\ tx[b].i = 2

\* ------------------------------------------------------------------- C6
C6_Step ==
  (IsCall /\ Len(last'.p_order_items) = 0)
  => /\ last'.error # "none"
     /\ orders' = orders
     /\ order_status_history' = order_status_history

\* C6: creating an order with an empty item list is rejected with a
\* validation error, and no order row and no history row is created.
C6_EmptyItemListRejected == [][C6_Step]_vars

\* ------------------------------------------------------------------- C7
C7_Step ==
  (IsRoutineCall /\ last'.p_total_amount <= 0)
  => /\ last'.error = "invalid_total"
     /\ UNCHANGED ledger

\* C7: create_order_with_items called with a total amount that is not
\* strictly positive (exactly 0 in particular) is rejected with the
\* invalid-total error before any row is written: the three tables are
\* unchanged.
C7_NonPositiveTotalRejected == [][C7_Step]_vars

\* A call with total 0 and otherwise acceptable items was refused while the
\* ledger already held an order.
C7_Witness ==
  /\ last.rpc /\ last.p_total_amount = 0 /\ last.error = "invalid_total"
  /\ Len(last.p_order_items) > 0
  /\ AllItems(last.p_order_items, PositiveItem)
  /\ AllItems(last.p_order_items, LAMBDA it : ExistingFood(food_items, it))
  /\ Len(orders) = 1 /\ orders[1].tracking_id # last.p_tracking_id

\* ------------------------------------------------------------------- C8
C8_Step ==
  ( /\ IsRoutineCall
    /\ \E i \in DOMAIN last'.p_order_items :
         last'.p_order_items[i].quantity = 0 \/ last'.p_order_items[i].unit_price = 0 )
  => /\ last'.error # "none"
     /\ UNCHANGED ledger

\* C8: create_order_with_items called with a tuple whose quantity is 0 or
\* whose unit price is 0, at any position of the list, is rejected, and no
\* order, item or history row of the call remains.
C8_ZeroQuantityOrPriceRejected == [][C8_Step]_vars

\* A call was refused for the zero quantity of its second tuple, the first
\* tuple being acceptable.
C8_Witness ==
  /\ last.rpc /\ last.error = "check_violation"
  /\ last.p_total_amount > 0
  /\ Len(last.p_order_items) = 2
  /\ PositiveItem(last.p_order_items[1]) /\ ExistingFood(food_items, last.p_order_items[1])
  /\ last.p_order_items[2].quantity = 0 /\ last.p_order_items[2].unit_price > 0
  /\ ExistingFood(food_items, last.p_order_items[2])

\* ------------------------------------------------------------------- C9
C9_Step ==
  ( /\ IsRoutineCall
    /\ last'.p_total_amount > 0
    /\ ~TrackingIdPresent(orders, last'.p_tracking_id)
    /\ AllItems(last'.p_order_items, PositiveItem) )
  => /\ (\E i \in DOMAIN last'.p_order_items :
           ~ExistingFood(food_items, last'.p_order_items[i]))
        => (last'.error = "foreign_key_violation" /\ UNCHANGED ledger)
     /\ ( /\ AllItems(last'.p_order_items, LAMBDA it : ExistingFood(food_items, it))
          /\ \E i \in DOMAIN last'.p_order_items :
               UnavailableFood(food_items, last'.p_order_items[i]) )
        => ( /\ last'.error = "none"
             /\ SameRows(StoredItems(order_items', last'.v_order.id),
                         last'.p_order_items) )

\* C9: create_order_with_items called with a tuple whose food item id is not
\* in food_items fails with the referential-integrity error and leaves no
\* order, item or history row; a tuple of an existing food item that is
\* currently unavailable is accepted.
C9_DanglingFoodItemRejected == [][C9_Step]_vars

\* A call was refused for the unknown food item of its second tuple, the
\* first tuple being acceptable.
C9_Witness ==
  /\ last.rpc /\ last.error = "foreign_key_violation"
  /\ Len(last.p_order_items) = 2
  /\ ExistingFood(food_items, last.p_order_items[1])
  /\ ~ExistingFood(food_items, last.p_order_items[2])

\* ------------------------------------------------------------------ C10
\* C10: for all accepted arguments (with at least one item), the stored
\* total_amount of the order equals the sum over its stored items of
\* unit_price * quantity.
C10_TotalEqualsItemsSum ==
  \A k \in DOMAIN orders :
    Len(StoredItems(order_items, orders[k].id)) > 0
    => orders[k].total_amount = ItemsSum(StoredItems(order_items, orders[k].id))

C10_Step ==
  (IsRoutineCall /\ last'.error = "none")
  => LET o == orders'[Len(orders')]
     IN  /\ o.id = last'.v_order.id
         /\ o.total_amount = last'.p_total_amount
         /\ SameRows(StoredItems(order_items', o.id), last'.p_order_items)
         /\ (last'.p_total_amount = ItemsSum(last'.p_order_items)
               => o.total_amount = ItemsSum(StoredItems(order_items', o.id)))
         /\ (last'.via = "checkout"
               => o.total_amount = ItemsSum(StoredItems(order_items', o.id)))

\* C10 as amended: the order stores the total the caller supplied, as supplied,
\* and its items as supplied; the stored total equals the sum over the stored
\* items of unit_price * quantity whenever the supplied total equals that sum
\* of the supplied items, as it does for every order placed by handlePlaceOrder.
C10_StoredTotalIsSuppliedTotal == [][C10_Step]_vars

\* The checkout page has placed an order of two cart entries, one of them
\* with a quantity above 1.
C10_Witness ==
  /\ last.via = "checkout" /\ last.rpc /\ last.error = "none"
  /\ Len(last.p_order_items) = 2
  /\ \E i \in DOMAIN last.p_order_items : last.p_order_items[i].quantity > 1
  /\ \E k \in DOMAIN orders :
       /\ orders[k].id = last.v_order.id
       /\ orders[k].total_amount = ItemsSum(last.p_order_items)

\* ------------------------------------------- vocabulary of C11 to C20
\* No dashboard is between the two requests of updateOrderStatus.
Quiescent == \A d \in DOMAIN admin : admin[d].pc = "idle"

HistoryStatuses(history, id) ==
  LET h == HistoryOfOrder(history, id) IN [i \in DOMAIN h |-> h[i].status]

\* The statuses written for one order, oldest first: those of the changes of
\* table orders published for it whose statement set the column status.
PublishedStatuses(changes, id) ==
  LET c == SelectSeq(changes, LAMBDA e : e.id = id /\ "status" \in e.set)
  IN  [i \in DOMAIN c |-> c[i].status]

\* The place of a status in the pipeline, 0 for 'cancelled'.
Stage(status) ==
  CASE status = "pending" -> 1
    [] status = "payment_received" -> 2
    [] status = "confirmed" -> 3
    [] status = "preparing" -> 4
    [] status = "dispatched" -> 5
    [] status = "delivered" -> 6
    [] OTHER -> 0

LegalEdge(a, b) ==
  \/ Stage(a) > 0 /\ Stage(b) = Stage(a) + 1
  \/ b = "cancelled" /\ a \in {"pending", "payment_received", "confirmed"}

\* In this step the order with this id is given the status and the time of
\* the step as updated_at; every other orders row stays as it is.
StatusWritten(id, status) ==
  /\ OrderExists(orders, id)
  /\ DOMAIN orders' = DOMAIN orders
  /\ \A k \in DOMAIN orders :
       IF orders[k].id = id
       THEN /\ orders'[k] = [orders[k] EXCEPT !.status = status, !.updated_at = now]
            /\ orders'[k].updated_at > orders[k].updated_at
       ELSE orders'[k] = orders[k]

\* ------------------------------------------------------------------ C11
C11_Step ==
  /\ ( /\ IsCall /\ last'.via = "update_order_status"
       /\ OrderExists(orders, last'.p_order_id) )
     => /\ last'.error = "none"
        /\ StatusWritten(last'.p_order_id, last'.p_new_status)
        /\ order_status_history' =
             Append(order_status_history,
                    [order_id |-> last'.p_order_id, status |-> last'.p_new_status])
  /\ \A d \in DOMAIN admin :
       /\ ( /\ admin[d].pc = "idle" /\ admin'[d].pc = "insert_history"
            /\ orders_changes' # orders_changes )
          => /\ StatusWritten(admin'[d].orderId, admin'[d].newStatus)
             /\ order_status_history' = order_status_history
       /\ ( /\ admin[d].pc = "insert_history" /\ admin'[d].pc = "idle"
            /\ admin'[d].toast = "success" )
          => /\ order_status_history' =
                  Append(order_status_history,
                         [order_id |-> admin[d].orderId, status |-> admin[d].newStatus])
             /\ orders' = orders

\* C11: a successful status transition of an existing order o to status s
\* (update_order_status in its one transaction; updateOrderStatus in its two
\* requests, the UPDATE that changes the row and the history INSERT that
\* succeeds) sets o.status to s, sets o.updated_at to the time of the write,
\* which is later than before, and appends exactly one history row (o, s);
\* it changes no other orders row and appends no other history row.
C11_TransitionWritesStatusAndHistory == [][C11_Step]_vars

\* A dashboard has completed a transition of one of two orders; the other
\* order is still 'pending'.
C11_Witness ==
  \E d \in DOMAIN admin :
    /\ admin[d].pc = "idle" /\ admin[d].toast = "success"
    /\ Len(orders) = 2
    /\ \E k \in DOMAIN orders : \E j \in DOMAIN orders :
         /\ orders[k].id = admin[d].orderId /\ orders[k].status = admin[d].newStatus
         /\ orders[k].updated_at > 0
         /\ j # k /\ orders[j].status = "pending"
    /\ order_status_history[Len(order_status_history)]
         = [order_id |-> admin[d].orderId, status |-> admin[d].newStatus]

\* ------------------------------------------------------------------ C12
\* C12: in every state in which no transition call is in progress, the
\* status of each order (that has history rows) is the status of its most
\* recent order_status_history row.
C12_StatusEqualsLatestHistory ==
  Quiescent =>
    \A k \in DOMAIN orders :
      LET h == HistoryStatuses(order_status_history, orders[k].id)
      IN  Len(h) > 0 => h[Len(h)] = orders[k].status

\* ------------------------------------------------------------------ C13
\* C13: the history of every order (that has history rows), oldest first,
\* begins with 'pending', and each two consecutive statuses of it are an edge
\* of the legal graph.
C13_HistoryFollowsLegalGraph ==
  \A k \in DOMAIN orders :
    LET h == HistoryStatuses(order_status_history, orders[k].id)
    IN  Len(h) > 0 =>
          /\ h[1] = "pending"
          /\ \A i \in 1..(Len(h) - 1) : LegalEdge(h[i], h[i + 1])

\* ------------------------------------------------------------------ C14
C14_Step ==
  \A k \in DOMAIN orders :
    orders[k].status \in {"delivered", "cancelled"}
    => (k \in DOMAIN orders' /\ orders'[k].status = orders[k].status)

\* C14: an order whose stored status is 'delivered' or 'cancelled' keeps that
\* status in every step.
C14_TerminalStatusNeverChanges == [][C14_Step]_vars

\* ------------------------------------------------------------------ C15
C15_Step ==
  /\ \A k \in DOMAIN orders' : orders'[k].status \in order_status_enum
  /\ \A k \in DOMAIN orders :
       ( /\ k \in DOMAIN orders'
         /\ Stage(orders[k].status) > 0 /\ Stage(orders'[k].status) > 0 )
       => Stage(orders'[k].status) >= Stage(orders[k].status)

\* C15: the status of an order is always one of the seven enumerated values,
\* and no step moves it to an earlier stage of the pipeline pending,
\* payment_received, confirmed, preparing, dispatched, delivered.
C15_StatusNeverMovesBack == [][C15_Step]_vars

\* ------------------------------------------------------------------ C16
C16_Step ==
  \A k \in DOMAIN orders :
    ( /\ k \in DOMAIN orders'
      /\ orders'[k].status = "cancelled" /\ orders[k].status # "cancelled" )
    => orders[k].status \in {"pending", "payment_received", "confirmed"}

\* C16: an order becomes 'cancelled' only in a step before which its stored
\* status is 'pending', 'payment_received' or 'confirmed'.
C16_CancelledOnlyFromEarlyStages == [][C16_Step]_vars

\* ------------------------------------------------------------------ C17
\* C17: when no transition call is in progress, the history of each order
\* (that has history rows) holds one row for its creation and one row per
\* later write of its status, in the order of the writes: its statuses are
\* the statuses table orders has published for the order.
C17_HistoryIsTheTransitionLog ==
  Quiescent =>
    \A k \in DOMAIN orders :
      LET h == HistoryStatuses(order_status_history, orders[k].id)
      IN  Len(h) > 0 => h = PublishedStatuses(orders_changes, orders[k].id)

\* ------------------------------------------------------------------ C18
C18_Step ==
  \A k \in DOMAIN orders :
    ItemsOfOrder(order_items', orders[k].id) = ItemsOfOrder(order_items, orders[k].id)

\* C18: no step changes the order_items rows of an existing order: their
\* set, their quantity and their unit_price stay as created under a change of
\* the food item's price or availability, the deletion of the food item and
\* every status transition.
C18_OrderItemsNeverChange == [][C18_Step]_vars

\* ------------------------------------------------------------------ C19
C19_Step ==
  /\ \A k \in DOMAIN orders :
       /\ k \in DOMAIN orders'
       /\ orders'[k].id = orders[k].id
       /\ orders'[k].session_id = orders[k].session_id
       /\ orders'[k].tracking_id = orders[k].tracking_id
       /\ orders'[k].total_amount = orders[k].total_amount
       /\ orders'[k].customer_note = orders[k].customer_note
  /\ ( /\ Len(orders') = Len(orders)
       /\ orders' # orders \/ order_status_history' # order_status_history )
     => order_items' = order_items

\* C19: no step deletes an order or changes its id, session_id, tracking_id,
\* total_amount or customer note, and a step of a status transition (one that
\* writes a status or appends a history row of an existing order) leaves
\* every order's items as they are.
C19_TransitionChangesOnlyStatus == [][C19_Step]_vars

\* An order with two items has been taken through two transitions and has
\* left 'pending'; its items are still there.
C19_Witness ==
  \E k \in DOMAIN orders :
    /\ orders[k].status \notin {"pending", "cancelled"}
    /\ orders[k].updated_at > 1
    /\ Len(HistoryOfOrder(order_status_history, orders[k].id)) = 3
    /\ Len(ItemsOfOrder(order_items, orders[k].id)) = 2

\* ------------------------------------------------------------------ C20
C20_Step ==
  /\ Len(orders') > Len(orders)
     => /\ ExtendsBy(orders', orders, 1)
        /\ LET o == orders'[Len(orders')]
           IN  /\ order_status_history' =
                    Append(order_status_history, [order_id |-> o.id, status |-> "pending"])
               /\ Len(order_items') > Len(order_items)
               /\ ItemsOfOrder(order_items', o.id)
                    = SubSeq(order_items', Len(order_items) + 1, Len(order_items'))
  /\ Len(orders') = Len(orders)
     => /\ Len(order_items') <= Len(order_items)
        /\ \/ order_status_history' = order_status_history
           \/ \E k \in DOMAIN orders :
                order_status_history' =
                  Append(order_status_history,
                         [order_id |-> orders[k].id,
                          status |-> order_status_history'[Len(order_status_history')].status])

\* C20: every step that writes the ledger is the order-creation transaction
\* (one orders row together with its items and its 'pending' history row) or
\* a status transition: no step inserts an orders row without its items and
\* its initial history row, and no step inserts item rows on their own.
C20_OnlyTwoWritePaths == [][C20_Step]_vars

\* ------------------------------------------- vocabulary of C21 to C30
\* The toasts the catch block of updateOrderStatus shows.
ErrorToasts ==
  {"You do not have permission to update this order",
   "Failed to update order status. Please try again.",
   "An unexpected error occurred"}

\* ------------------------------------------------------------------ C22
\* C22: a call of updateOrderStatus that met a failure ends with an outcome
\* that tells the kind of the failure: it ends with an error toast, never with
\* the success toast, and the toast is the permission toast exactly when the
\* actor was not authorized (rather than the order missing or the store out
\* of reach).
C22_FailureKindsDistinguished ==
  \A d \in DOMAIN admin :
    (admin[d].pc = "idle" /\ admin[d].failure # "none")
    => /\ admin[d].toast \in ErrorToasts
       /\ admin[d].toast = "You do not have permission to update this order"
            <=> admin[d].failure = "forbidden"

\* ------------------------------------------------------------------ C23
C23_Step ==
  \A d \in DOMAIN admin :
    LET a == admin[d]
        b == admin'[d]
        failed ==
          /\ b.pc = "idle" /\ b.toast \in ErrorToasts
          /\ \/ a.pc = "insert_history"
             \/ <<b.toast, b.failure, b.orderId, b.newStatus>>
                  # <<a.toast, a.failure, a.orderId, a.newStatus>>
    IN  /\ failed => b.calls # {}
        /\ (a.calls # {} /\ b.calls = {} /\ b.error = "none")
           => b.orders = OrdersView(orders')

\* C23: a step in which a write of updateOrderStatus fails (the UPDATE of
\* orders or the INSERT into order_status_history) starts a call of
\* fetchOrders; and when the calls of fetchOrders that were started have
\* returned without error, the dashboard shows for every order the status
\* that is stored, so an optimistic status that was never stored is gone.
C23_FailedWriteIsRefetched == [][C23_Step]_vars

\* A press of a button has failed and the re-fetch has returned: the
\* dashboard shows what is stored, and the status it had shown optimistically
\* is not the stored one.
C23_Witness ==
  \E d \in DOMAIN admin :
    /\ admin[d].pc = "idle" /\ admin[d].toast \in ErrorToasts
    /\ admin[d].calls = {} /\ admin[d].error = "none"
    /\ admin[d].orders = OrdersView(orders)
    /\ \E k \in DOMAIN orders :
         /\ orders[k].id = admin[d].orderId
         /\ orders[k].status # admin[d].newStatus

\* ------------------------------------------------------------------ C30
C30_Step ==
  (IsCall /\ last'.via = "confirm_payment")
  => IF /\ OrderExists(orders, last'.p_order_id)
        /\ last'.p_admin_id \in admin_credentials
     THEN /\ last'.error = "none"
          /\ DOMAIN orders' = DOMAIN orders
          /\ \A k \in DOMAIN orders :
               orders'[k] = IF orders[k].id = last'.p_order_id
                            THEN [orders[k] EXCEPT !.payment_status = "confirmed",
                                                   !.status = "confirmed",
                                                   !.updated_at = now]
                            ELSE orders[k]
          /\ payment_confirmation_history' =
               Append(payment_confirmation_history,
                      [order_id |-> last'.p_order_id, confirmed_by |-> last'.p_admin_id,
                       status |-> "confirmed"])
          /\ order_status_history' =
               Append(order_status_history,
                      [order_id |-> last'.p_order_id, status |-> "confirmed"])
          /\ order_items' = order_items
     ELSE /\ last'.error # "none"
          /\ UNCHANGED <<ledger, payment_confirmation_history>>

\* C30: a call of confirm_payment for an existing order, made with the id of
\* an admin, succeeds whatever the order's status is: after it the order's
\* payment_status and status are both 'confirmed', exactly one 'confirmed'
\* row for the order has been appended to payment_confirmation_history and
\* one to order_status_history, and nothing else is written. A call for an
\* order id that does not exist (or with the id of no admin) fails and
\* writes no row.
C30_ConfirmPaymentWritesAllOrNothing == [][C30_Step]_vars

\* confirm_payment has succeeded for an order that was 'preparing',
\* 'delivered' or 'cancelled'.
C30_Witness ==
  /\ last.via = "confirm_payment" /\ last.error = "none"
  /\ Len(payment_confirmation_history) = 1
  /\ \E k \in DOMAIN orders :
       LET h == HistoryStatuses(order_status_history, orders[k].id)
       IN  /\ orders[k].id = last.p_order_id
           /\ orders[k].status = "confirmed" /\ orders[k].payment_status = "confirmed"
           /\ Len(h) = 3 /\ h[3] = "confirmed"
           /\ h[2] \in {"preparing", "delivered", "cancelled"}

\* ------------------------------------------------------------------ C24
\* C24: the retry count of fetchOrders never exceeds MAX_RETRIES, so that at
\* most 3 automatic re-fetches follow a failed fetch, and the timer of the
\* k-th of them is set to 1000 * 2^(k - 1) ms (1 s, 2 s, 4 s).
C24_RetriesBoundedAndBackedOff ==
  \A d \in DOMAIN admin :
    /\ admin[d].retryCount <= MAX_RETRIES
    /\ (admin[d].error # "none" /\ admin[d].retryCount > 0)
       => admin[d].delay = 1000 * 2^(admin[d].retryCount - 1)

\* ------------------------------------------------------------------ C25
\* C25: when the retry count has reached MAX_RETRIES and the last fetch
\* failed, the button of the error view is enabled.
C25_ManualRetryUsable ==
  \A d \in DOMAIN admin :
    (admin[d].error # "none" /\ admin[d].retryCount >= MAX_RETRIES)
    => ~RetryDisabled(admin[d])

\* ------------------------------------------------------------------ C28
\* C28: when a subscribed dashboard has handled every change of table orders
\* published so far, no call of fetchOrders is waiting and the last fetch
\* did not fail, the dashboard shows the orders with their stored statuses.
C28_DashboardsConverge ==
  \A d \in DOMAIN admin :
    ( /\ admin[d].seen = Len(orders_changes)
      /\ admin[d].calls = {} /\ admin[d].error = "none" )
    => admin[d].orders = OrdersView(orders)

\* ------------------------------------------------------------------ C26
C26_Step ==
  (IsCall /\ last'.via = "checkout")
  => /\ client'.isProcessing = FALSE
     /\ IF last'.error = "none"
        THEN /\ client'.cart = <<>>
             /\ client'.route = "/order-success"
             /\ client'.tracking = last'.p_tracking_id
             /\ Len(orders') = Len(orders) + 1
             /\ orders'[Len(orders')].tracking_id = client'.tracking
        ELSE /\ client'.cart = client.cart
             /\ client'.route = client.route
             /\ client'.checkout = client.checkout
             /\ UNCHANGED ledger

\* C26: a call of handlePlaceOrder clears the cart and goes to the success
\* page of the order's tracking code when create_order_with_items has
\* succeeded, and only then: after any failure (a duplicate tracking code
\* included) the stored cart, the page and its cart are as before, no row is
\* written, and in both cases the processing flag is off again, so that the
\* order can be placed again (with a tracking code generated for that call).
C26_CartClearedOnlyOnSuccess == [][C26_Step]_vars

\* After an order was placed, a second attempt of the same browser was
\* rejected for its tracking code: the cart is still filled and the checkout
\* page is still open.
C26_Witness ==
  /\ last.via = "checkout" /\ last.error = "duplicate_tracking"
  /\ Len(orders) = 1 /\ calls >= 2
  /\ Len(client.cart) > 0 /\ client.route = "/checkout"
  /\ ~client.isProcessing

\* ------------------------------------------------------------------ C29
\* The cart holds at most one entry per item id, each with a positive
\* quantity.
C29_CartOK(cart) ==
  /\ \A i, j \in DOMAIN cart : cart[i].id = cart[j].id => i = j
  /\ \A i \in DOMAIN cart : cart[i].quantity > 0

\* The entries of the other ids, in their order.
C29_Others(cart, id) == SelectSeq(cart, LAMBDA e : e.id # id)

C29_Step ==
  /\ C29_CartOK(client'.cart)
  /\ last'.via = "addToCart"
     => /\ C29_Others(client'.cart, last'.id) = C29_Others(client.cart, last'.id)
        /\ \E i \in DOMAIN client'.cart :
             /\ client'.cart[i].id = last'.id
             /\ IF InCart(client.cart, last'.id)
                THEN /\ Len(client'.cart) = Len(client.cart)
                     /\ client'.cart[i].quantity = client.cart[i].quantity + last'.quantity
                ELSE /\ Len(client'.cart) = Len(client.cart) + 1
                     /\ client'.cart[i].quantity = last'.quantity
  /\ last'.via = "updateCartItemQuantity"
     => /\ C29_Others(client'.cart, last'.id) = C29_Others(client.cart, last'.id)
        /\ IF ~InCart(client.cart, last'.id) THEN client'.cart = client.cart
           ELSE IF last'.quantity <= 0 THEN ~InCart(client'.cart, last'.id)
           ELSE \E i \in DOMAIN client'.cart :
                  /\ client'.cart[i].id = last'.id
                  /\ client'.cart[i].quantity = last'.quantity
                  /\ Len(client'.cart) = Len(client.cart)
  /\ last'.via = "removeFromCart"
     => /\ client'.cart = C29_Others(client.cart, last'.id)
  /\ last'.via = "clearCart" => client'.cart = <<>>

\* C29: after every call of addToCart (with a positive quantity),
\* updateCartItemQuantity, removeFromCart and clearCart the cart holds at most
\* one entry per item id and every entry has a quantity above 0; addToCart
\* for an id in the cart adds the quantity to that entry and else appends one
\* entry; updateCartItemQuantity with a quantity of 0 or less removes the
\* entry, with a positive quantity sets it, and for an id not in the cart
\* leaves the cart as it is; no call touches the entries of other ids.
C29_CartEntriesUniqueAndPositive == [][C29_Step]_vars

\* addToCart was called for an item already in a cart of two entries, and
\* the entry's quantity is now above the quantity added.
C29_Witness ==
  /\ last.via = "addToCart"
  /\ Len(client.cart) = 2
  /\ \E i \in DOMAIN client.cart :
       /\ client.cart[i].id = last.id
       /\ client.cart[i].quantity > last.quantity

\* C21: looking an order up by its tracking code gives the order, with its
\* items and its current status, only when the stored order has this tracking
\* code and the session id of the caller; for a tracking code of no order, or
\* of an order of another session, the lookup ends in an error, gives no order
\* data, and the page holds no order.
C21_LookupMatchesCodeAndSession ==
  last.via = "fetchOrder" =>
    LET mine == {i \in DOMAIN orders :
                   /\ orders[i].tracking_id = last.p_tracking_id
                   /\ orders[i].session_id = "s1"}
    IN  /\ last.data # NoOrder =>
             \E i \in mine :
               /\ last.error = "none"
               /\ last.data.id = orders[i].id
               /\ last.data.tracking_id = last.p_tracking_id
               /\ last.data.session_id = "s1"
               /\ last.data.status = orders[i].status
               /\ last.data.order_items = StoredItems(order_items, orders[i].id)
               /\ client.order = last.data
        /\ mine = {} =>
             /\ last.error # "none"
             /\ last.data = NoOrder
             /\ client.order = NoOrder

\* A lookup has given this session's order while an order of another session
\* is stored.
C21_Witness ==
  /\ last.via = "fetchOrder"
  /\ last.data # NoOrder
  /\ \E i \in DOMAIN orders : orders[i].session_id = "s2"

\* C27: the subscriber of the customer's session shows a notification exactly
\* when it takes an UPDATE of an order of its own session whose new status
\* differs from the status the row had before; it shows none for an INSERT,
\* for an update that leaves the status as it was, or for a change of another
\* session's order.
C27_Step ==
  client'.seen = client.seen + 1 =>
    LET e == orders_changes[client'.seen]
    IN  (Len(client'.toasts) = Len(client.toasts) + 1)
        <=> (e.eventType = "UPDATE" /\ e.session_id = "s1" /\ e.status # e.was)

C27_NotifiesExactlyOnStatusChange == [][C27_Step]_vars

====
